---------------------------- MODULE Spec2Model ----------------------------
(***************************************************************************)
(* stgv: the bit-level steganography codec (src/src/steg.rs, bit.rs) and   *)
(* the driver that calls it (src/src/exec.rs), as a state machine.         *)
(*                                                                         *)
(* One behaviour is one session on one carrier image: a first invocation   *)
(* of run (encode, decode or capacity report) and, when an encode saved    *)
(* its grid, a second invocation that decodes the saved grid.  encode and  *)
(* decode advance one channel byte (one bit) per step.                     *)
(***************************************************************************)
EXTENDS Integers, Sequences, FiniteSets, TLC

(***************************************************************************)
(* Bounds of the model.                                                    *)
(***************************************************************************)
\* Longest filler payload, in bytes (one filler payload per length 0..MaxMsgLen).
MaxMsgLen == 6
\* Number of distinct seed strings tried with the Rsb strategy.
NumSeeds == 1

(***************************************************************************)
(* Bits and bytes.                                                         *)
(***************************************************************************)
RECURSIVE Pow2(_)
Pow2(k) == IF k = 0 THEN 1 ELSE 2 * Pow2(k - 1)

\* format!("{:08b}", byte): the 8 binary digits of a byte, most significant first.
Fmt08b(byte) == [i \in 1..8 |-> (byte \div Pow2(8 - i)) % 2]

RECURSIVE Concat(_)
Concat(ss) == IF ss = <<>> THEN <<>> ELSE Head(ss) \o Concat(Tail(ss))

\* binary_msg of steg.rs:58-65: every byte expanded to its 8 digits.
BinaryOf(bytes) == Concat([i \in 1..Len(bytes) |-> Fmt08b(bytes[i])])

\* const END: &[u8] = b"$TGV"
END == <<36, 84, 71, 86>>

\* `end` of decode (steg.rs:113-121): the digits of END.
EndBits == BinaryOf(END)

\* has_end(bits, end)
has_end(bits, end) ==
    IF Len(bits) < Len(end) THEN FALSE
    ELSE LET start == Len(bits) - Len(end)
         IN  SubSeq(bits, start + 1, Len(bits)) = end

\* u8::from_str_radix(s, 2) on the digits of one chunk: Err on an empty string,
\* on a character that is not a binary digit, and on a value above u8::MAX.
RECURSIVE RadixValue(_)
RadixValue(chrs) ==
    IF chrs = <<>> THEN 0
    ELSE 2 * RadixValue(SubSeq(chrs, 1, Len(chrs) - 1)) + chrs[Len(chrs)]

from_str_radix2(chrs) ==
    IF chrs = <<>> \/ (\E i \in 1..Len(chrs) : chrs[i] \notin {0, 1})
        THEN [ok |-> FALSE, val |-> 0]
    ELSE IF RadixValue(chrs) > 255 THEN [ok |-> FALSE, val |-> 0]
    ELSE [ok |-> TRUE, val |-> RadixValue(chrs)]

\* bitstream.chunks(8): consecutive chunks of 8, the last one possibly shorter.
Chunks(s, n) ==
    [i \in 1..((Len(s) + n - 1) \div n) |->
        SubSeq(s, (i - 1) * n + 1, IF i * n < Len(s) THEN i * n ELSE Len(s))]

\* The byte reconstruction loop of decode (steg.rs:159-171).
Reconstruct(bits) ==
    LET cs == Chunks(bits, 8)
        ps == [i \in 1..Len(cs) |-> from_str_radix2(cs[i])]
    IN  IF \E i \in 1..Len(ps) : ~ps[i].ok
            THEN [kind |-> "Decoding", bytes |-> <<>>]
        ELSE [kind |-> "Ok", bytes |-> [i \in 1..Len(ps) |-> ps[i].val]]

(***************************************************************************)
(* f64 arithmetic of linspace, bit for bit.  A positive double is           *)
(* [m, e]: m its 53 significand bits, leading bit first, e the exponent of  *)
(* the leading bit; zero is [m |-> <<>>, e |-> 0].  Rounding is to nearest, *)
(* ties to even.                                                            *)
(***************************************************************************)
F64Zero == [m |-> <<>>, e |-> 0]

RECURSIVE NatBits(_)
NatBits(n) == IF n = 0 THEN <<>> ELSE NatBits(n \div 2) \o <<n % 2>>

RECURSIVE BitsNat(_)
BitsNat(bs) ==
    IF bs = <<>> THEN 0
    ELSE 2 * BitsNat(SubSeq(bs, 1, Len(bs) - 1)) + bs[Len(bs)]

RECURSIVE IncBits(_)
IncBits(bs) ==
    IF bs = <<>> THEN <<1>>
    ELSE IF bs[Len(bs)] = 0 THEN SubSeq(bs, 1, Len(bs) - 1) \o <<1>>
    ELSE IncBits(SubSeq(bs, 1, Len(bs) - 1)) \o <<0>>

\* bs: at least 53 exact leading bits of a value whose leading bit has exponent
\* e; sticky: whether the value has further nonzero bits below bs.
F64Round(bs, sticky, e) ==
    LET keep  == SubSeq(bs, 1, 53)
        rest  == SubSeq(bs, 54, Len(bs))
        guard == IF rest = <<>> THEN 0 ELSE rest[1]
        low   == sticky \/ (\E i \in 2..Len(rest) : rest[i] = 1)
        up    == guard = 1 /\ (low \/ keep[53] = 1)
        inc   == IncBits(keep)
    IN  IF ~up THEN [m |-> keep, e |-> e]
        ELSE IF Len(inc) > 53 THEN [m |-> SubSeq(inc, 1, 53), e |-> e + 1]
        ELSE [m |-> inc, e |-> e]

RECURSIVE DivBits(_, _, _, _)
\* k more quotient bits of r / den (r < den) appended to acc, and the remainder left.
DivBits(r, den, k, acc) ==
    IF k = 0 THEN [bits |-> acc, rem |-> r]
    ELSE IF 2 * r >= den THEN DivBits(2 * r - den, den, k - 1, Append(acc, 1))
    ELSE DivBits(2 * r, den, k - 1, Append(acc, 0))

RECURSIVE ShiftUp(_, _)
\* The largest x with den * 2^x <= num (num >= den).
ShiftUp(num, den) == IF 2 * den <= num THEN 1 + ShiftUp(num, 2 * den) ELSE 0

RECURSIVE ShiftDown(_, _)
\* The smallest t with num * 2^t >= den.
ShiftDown(num, den) == IF num >= den THEN 0 ELSE 1 + ShiftDown(2 * num, den)

\* a / b in f64, for integers a >= 0 and b >= 1 (both exact as doubles).
F64Div(a, b) ==
    IF a = 0 THEN F64Zero
    ELSE LET x   == IF a >= b THEN ShiftUp(a, b) ELSE 0 - ShiftDown(a, b)
             num == IF x >= 0 THEN a ELSE a * Pow2(0 - x)
             den == IF x >= 0 THEN b * Pow2(x) ELSE b
             q   == DivBits(num - den, den, 53, <<1>>)
         IN  F64Round(q.bits, q.rem # 0, x)

RECURSIVE MulBits(_, _, _, _, _)
\* The bits of (bs[1..k] as a number) * i + carry, followed by acc.
MulBits(bs, k, i, carry, acc) ==
    IF k = 0 THEN NatBits(carry) \o acc
    ELSE IF (bs[k] * i + carry) % 2 = 1
        THEN MulBits(bs, k - 1, i, (bs[k] * i + carry) \div 2, <<1>> \o acc)
    ELSE MulBits(bs, k - 1, i, (bs[k] * i + carry) \div 2, <<0>> \o acc)

\* f * i in f64, for an integer i >= 0 (exact as a double).
F64MulNat(f, i) ==
    IF f.m = <<>> \/ i = 0 THEN F64Zero
    ELSE LET p == MulBits(f.m, 53, i, 0, <<>>)
         IN  F64Round(p, FALSE, f.e + (Len(p) - 53))

\* p.floor() as usize
F64Floor(f) ==
    IF f.m = <<>> \/ f.e < 0 THEN 0 ELSE BitsNat(SubSeq(f.m, 1, f.e + 1))

\* A linspace whose step divides by n, leaving the end point out.
linspace_by_n(b, n) ==
    LET step == IF n > 1 THEN F64Div(b, n) ELSE F64Zero
    IN  [i \in 1..n |-> F64MulNat(step, i - 1)]

\* itertools_num::linspace(a, b, n) for a = 0: step = (b - a) / (n - 1) when
\* n > 1, else 0; the i-th element is a + step * i.
linspace(b, n) ==
    LET step == IF n > 1 THEN F64Div(b, n - 1) ELSE F64Zero
    IN  [i \in 1..n |-> F64MulNat(step, i - 1)]

\* get_linspace(0., b, n)
get_linspace(b, n) ==
    LET ps == linspace(b, n) IN [i \in 1..n |-> F64Floor(ps[i])]


\* (x as f64).ceil() as usize
F64Ceil(f) ==
    IF f.m = <<>> THEN 0
    ELSE IF f.e < 0 THEN 1
    ELSE IF \E i \in (f.e + 2)..53 : f.m[i] = 1 THEN F64Floor(f) + 1
    ELSE F64Floor(f)

(***************************************************************************)
(* usize arithmetic of max_bytes on a 64-bit target: a value is four       *)
(* 16-bit limbs, most significant first.                                   *)
(***************************************************************************)
\* n as usize, for 0 <= n < 2^31.
USize(n) == <<0, 0, n \div 65536, n % 65536>>

RECURSIVE SubLimbs(_, _, _, _, _)
\* a - b modulo 2^64, limb k downwards with the borrow so far.
SubLimbs(a, b, k, borrow, acc) ==
    IF k = 0 THEN acc
    ELSE IF a[k] - b[k] - borrow < 0
        THEN SubLimbs(a, b, k - 1, 1, <<a[k] - b[k] - borrow + 65536>> \o acc)
    ELSE SubLimbs(a, b, k - 1, 0, <<a[k] - b[k] - borrow>> \o acc)

\* a < b on usize
LtLimbs(a, b) ==
    \E k \in 1..4 : a[k] < b[k] /\ \A j \in 1..(k - 1) : a[j] = b[j]

RECURSIVE DivLimbs(_, _, _, _, _)
\* a / d (d < 2^15), limb k upwards with the remainder so far.
DivLimbs(a, d, k, rem, acc) ==
    IF k > 4 THEN acc
    ELSE IF rem * 65536 + a[k] >= 0
        THEN DivLimbs(a, d, k + 1, (rem * 65536 + a[k]) % d,
                      Append(acc, (rem * 65536 + a[k]) \div d))
    ELSE acc

\* Whether the usize value is below 2^31, and then its value.
FitsNat(a) == a[1] = 0 /\ a[2] = 0 /\ a[3] < 32768
NatOf(a) == a[3] * 65536 + a[4]

\* A max_bytes that does not set the bits of END aside.
max_bytes_without_end(img, overflow_checks) ==
    [panic |-> FALSE,
     val |-> DivLimbs(USize(img.width * img.height * 3), 8, 1, 0, <<>>)]

\* BitEncoder::max_bytes.  The u32 product width * height * 3 is below 2^32 on
\* every grid of the model.  The usize subtraction overflows when the grid has
\* fewer than 32 channel bytes: a build with overflow checks aborts there, a
\* build without them wraps modulo 2^64.
max_bytes(img, overflow_checks) ==
    LET chans == USize(img.width * img.height * 3)
        endlen == USize(Len(END) * 8)
    IN  IF overflow_checks /\ LtLimbs(chans, endlen)
            THEN [panic |-> TRUE, val |-> USize(0)]
        ELSE [panic |-> FALSE,
              val |-> DivLimbs(SubLimbs(chans, endlen, 4, 0, <<>>), 8, 1, 0, <<>>)]

(***************************************************************************)
(* Bit strategies (bit.rs).                                                *)
(***************************************************************************)
\* color_val & mask, color_val & !mask, color_val | mask for a one-bit mask.
AndMask(c, m) == ((c \div m) % 2) * m
ClearMask(c, m) == c - AndMask(c, m)
SetMask(c, m) == c - AndMask(c, m) + m

\* BitMask::One as u8
BitMaskOne == 1

\* impl From<u8> for BitMask: panics on every value other than 1, 2, 4, 8.
BitMask_from(n) ==
    IF n \in {1, 2, 4, 8} THEN [panic |-> FALSE, mask |-> n]
    ELSE [panic |-> TRUE, mask |-> 0]

\* Seeder::from(seed).make_rng(): the generator state a seed string fixes.
\* The generator is a linear congruential one reduced to 16 bits of state.
Rsb_new(max, seed) ==
    [kind |-> "Rsb", max |-> max, rng |-> (seed * 12345 + 6789) % 65537, draws |-> 0]

\* Lsb::default()
Lsb_default == [kind |-> "Lsb", max |-> 0, rng |-> 0, draws |-> 0]

\* self.rng.gen_range(1..=self.max): advances the generator once and maps its
\* output onto 1..max.
gen_range(rng, max) ==
    LET s == (rng * 75 + 74) % 65537
    IN  [rng |-> s, n |-> 1 + (s * max) \div 65537]

\* Rsb::rand
Rsb_rand(enc) ==
    LET g == gen_range(enc.rng, enc.max)
    IN  [encoder |-> [enc EXCEPT !.rng = g.rng, !.draws = @ + 1],
         bm |-> BitMask_from(g.n)]

\* impl BitEncode for Lsb
Lsb_encode(enc, bit, color_val) ==
    [encoder |-> enc, panic |-> FALSE, mask |-> BitMaskOne,
     color |-> IF bit = 0 THEN ClearMask(color_val, BitMaskOne)
               ELSE IF bit = 1 THEN SetMask(color_val, BitMaskOne)
               ELSE color_val]

Lsb_decode(enc, color_val) ==
    [encoder |-> enc, panic |-> FALSE, mask |-> BitMaskOne,
     bit |-> AndMask(color_val, BitMaskOne)]

\* impl BitEncode for Rsb
Rsb_encode(enc, bit, color_val) ==
    LET r == Rsb_rand(enc)
    IN  IF r.bm.panic
            THEN [encoder |-> r.encoder, panic |-> TRUE, mask |-> 0, color |-> color_val]
        ELSE [encoder |-> r.encoder, panic |-> FALSE, mask |-> r.bm.mask,
              color |-> IF bit = 0 THEN ClearMask(color_val, r.bm.mask)
                        ELSE IF bit = 1 THEN SetMask(color_val, r.bm.mask)
                        ELSE color_val]

\* An Rsb decode that draws twice for one bit.
Rsb_decode_two_draws(enc, color_val) ==
    LET r == Rsb_rand(Rsb_rand(enc).encoder)
    IN  IF r.bm.panic
            THEN [encoder |-> r.encoder, panic |-> TRUE, mask |-> 0, bit |-> 0]
        ELSE [encoder |-> r.encoder, panic |-> FALSE, mask |-> r.bm.mask,
              bit |-> IF AndMask(color_val, r.bm.mask) > 0 THEN 1 ELSE 0]

Rsb_decode(enc, color_val) ==
    LET r == Rsb_rand(enc)
    IN  IF r.bm.panic
            THEN [encoder |-> r.encoder, panic |-> TRUE, mask |-> 0, bit |-> 0]
        ELSE [encoder |-> r.encoder, panic |-> FALSE, mask |-> r.bm.mask,
              bit |-> IF AndMask(color_val, r.bm.mask) > 0 THEN 1 ELSE 0]

\* self.encoder.encode / self.encoder.decode through the Box<dyn BitEncode>.
BitEncode_encode(enc, bit, color_val) ==
    IF enc.kind = "Lsb" THEN Lsb_encode(enc, bit, color_val)
    ELSE Rsb_encode(enc, bit, color_val)

BitEncode_decode(enc, color_val) ==
    IF enc.kind = "Lsb" THEN Lsb_decode(enc, color_val)
    ELSE Rsb_decode(enc, color_val)

\* BitEncoder::new, with the pub field end_seq as the caller leaves it.
BitEncoder_new(encoder, bd, es) ==
    [encoder |-> encoder, bit_dist |-> bd, end_seq |-> es]

(***************************************************************************)
(* The session.                                                            *)
(***************************************************************************)
VARIABLES
    image,              \* rgb8_img of the current invocation: width, height, raw bytes
    opt,                \* cli::CLI of the current invocation
    end_flag,           \* what the caller leaves in BitEncoder.end_seq
    msg,                \* the message read by run (after optional compression)
    steg,               \* the BitEncoder built by run
    max_msg_len,        \* max_msg_len of run, a usize
    pc,                 \* where the invocation stands
    panic,              \* the abort message once pc = "panic"
    out,                \* encode's clone `img`, mutated in place; the saved grid
    binary_msg,         \* encode's binary_msg
    linear_pixel_dist,  \* the linspace of encode or decode
    nbits,              \* bits of binary_msg already written
    bitstream,          \* decode's bitstream
    result,             \* what the invocation returned
    saved,              \* whether run wrote the encoded grid
    phase,              \* 1: the first invocation, 2: the decode of the saved grid
    carrier,            \* history: the raw bytes of the grid the session began with
    visited,            \* history: the (x, y) encode asked the grid for
    encLog,             \* history: channel and mask of every bit encode wrote
    decLog              \* history: channel and mask of every bit decode read

vars == <<image, opt, end_flag, msg, steg, max_msg_len, pc, panic, out, binary_msg,
          linear_pixel_dist, nbits, bitstream, result, saved, phase, carrier,
          visited, encLog, decLog>>

Pixels(img) == img.width * img.height

(***************************************************************************)
(* Inputs.                                                                 *)
(***************************************************************************)
\* Grid sizes: 27, 36, 48 and 72 channel bytes.
Dims == {<<3, 3>>, <<4, 3>>, <<4, 4>>, <<6, 4>>}

\* A carrier with varied bytes, and one whose low bits spell a stray 1 followed
\* by the digits of END.
PlainRaw(n) == [c \in 1..n |-> (c * 37 + 90) % 256]
MarkedRaw(n) ==
    LET low == <<1>> \o EndBits
    IN  [c \in 1..n |-> 164 + (IF c <= Len(low) THEN low[c] ELSE 0)]
RawImages(n) == {PlainRaw(n), MarkedRaw(n)}

\* The bytes of a digit string whose length is a multiple of 8.
BytesOf(bits) == [i \in 1..(Len(bits) \div 8) |-> BitsNat(SubSeq(bits, 8 * i - 7, 8 * i))]

\* Filler messages of every length up to MaxMsgLen, and three messages whose
\* digits interact with END: END itself, END at a bit offset of 3, and a
\* message whose last 31 digits are the first 31 digits of END.
Filler(n) == [i \in 1..n |-> 64 + i]
Payloads ==
    {Filler(n) : n \in 0..MaxMsgLen}
        \cup {END,
              BytesOf(<<0, 0, 0>> \o EndBits \o <<0, 0, 0, 0, 0>>),
              BytesOf(<<0>> \o SubSeq(EndBits, 1, 31))}

\* --method lsb, or --method rsb --max-bit 1..4 --seed s (CLI::validate).
Methods ==
    {[method |-> "lsb", max_bit |-> 0, seed |-> 0]}
        \cup {[method |-> "rsb", max_bit |-> n, seed |-> sd] : n \in 1..4, sd \in 1..NumSeeds}

\* --distribution sequential | linear | linear-N
Sequential == [kind |-> "Sequential", length |-> 0]
Linear(n) == [kind |-> "Linear", length |-> n]

Init ==
    \E d \in Dims, m \in Methods, mode \in {"encode", "decode", "check"} :
      \E raw \in RawImages(d[1] * d[2] * 3),
         bd \in {Sequential} \cup
                (IF mode = "decode" THEN {Linear(0), Linear(11), Linear(d[1] * d[2])}
                 ELSE IF mode = "encode" THEN {Linear(0)} ELSE {}),
         es \in (IF mode = "check" THEN {TRUE} ELSE BOOLEAN),
         p \in (IF mode = "encode" THEN Payloads ELSE {<<>>}) :
        /\ image = [width |-> d[1], height |-> d[2], raw |-> raw]
        /\ opt = [decode |-> mode = "decode", check_max_length |-> mode = "check",
                  method |-> m.method, max_bit |-> m.max_bit, seed |-> m.seed,
                  distribution |-> bd]
        /\ end_flag = es
        /\ msg = p
        /\ steg = BitEncoder_new(Lsb_default, Sequential, TRUE)
        /\ max_msg_len = USize(0)
        /\ pc = "start"
        /\ panic = ""
        /\ out = <<>>
        /\ binary_msg = <<>>
        /\ linear_pixel_dist = <<>>
        /\ nbits = 0
        /\ bitstream = <<>>
        /\ result = [kind |-> "None", bytes |-> <<>>]
        /\ saved = FALSE
        /\ phase = 1
        /\ carrier = raw
        /\ visited = <<>>
        /\ encLog = <<>>
        /\ decLog = <<>>

(***************************************************************************)
(* run (exec.rs).                                                          *)
(***************************************************************************)
\* exec.rs:25-39: load the image, build the encoder, ask it for max_bytes.
RunBegin ==
    /\ pc = "start"
    /\ \E overflow_checks \in BOOLEAN :
         LET enc == IF opt.method = "lsb" THEN Lsb_default
                    ELSE Rsb_new(opt.max_bit, opt.seed)
             mb  == max_bytes(image, overflow_checks)
         IN  /\ steg' = BitEncoder_new(enc, opt.distribution, end_flag)
             /\ IF mb.panic
                    THEN /\ pc' = "panic"
                         /\ panic' = "attempt to subtract with overflow"
                         /\ UNCHANGED max_msg_len
                ELSE /\ pc' = "ready"
                     /\ max_msg_len' = mb.val
                     /\ UNCHANGED panic
    /\ UNCHANGED <<image, opt, end_flag, msg, out, binary_msg, linear_pixel_dist,
                   nbits, bitstream, result, saved, phase, carrier, visited,
                   encLog, decLog>>

\* exec.rs:41-53: --check-max-length prints the capacity and returns.
RunCheckMaxLength ==
    /\ pc = "ready"
    /\ opt.check_max_length
    /\ pc' = "done"
    /\ result' = [kind |-> "Report", bytes |-> <<>>]
    /\ UNCHANGED <<image, opt, end_flag, msg, steg, max_msg_len, panic, out,
                   binary_msg, linear_pixel_dist, nbits, bitstream, saved, phase,
                   carrier, visited, encLog, decLog>>

\* exec.rs:113-121: msg.len() > max_msg_len bails before encode is called.
RunReject ==
    /\ pc = "ready"
    /\ ~opt.check_max_length /\ ~opt.decode
    /\ LtLimbs(max_msg_len, USize(Len(msg)))
    /\ pc' = "failed"
    /\ result' = [kind |-> "CapacityExceeded", bytes |-> <<>>]
    /\ UNCHANGED <<image, opt, end_flag, msg, steg, max_msg_len, panic, out,
                   binary_msg, linear_pixel_dist, nbits, bitstream, saved, phase,
                   carrier, visited, encLog, decLog>>

(***************************************************************************)
(* BitEncoder::encode (steg.rs:51-108).                                    *)
(***************************************************************************)
\* steg.rs:52-77: the digits of the message (and END), the clone, the linspace.
EncodeBegin ==
    /\ pc = "ready"
    /\ ~opt.check_max_length /\ ~opt.decode
    /\ ~LtLimbs(max_msg_len, USize(Len(msg)))
    /\ LET bm == BinaryOf(IF steg.end_seq THEN msg \o END ELSE msg)
           linspace_length == F64Ceil(F64Div(Len(bm), 3))
       IN  /\ binary_msg' = bm
           /\ linear_pixel_dist' = get_linspace(Pixels(image) - 1, linspace_length)
    /\ out' = image.raw
    /\ nbits' = 0
    /\ pc' = "encoding"
    /\ UNCHANGED <<image, opt, end_flag, msg, steg, max_msg_len, panic, bitstream,
                   result, saved, phase, carrier, visited, encLog, decLog>>

\* steg.rs:79-99: one bit of one chunk.  The pixel is fetched when the chunk
\* starts (get_pixel_mut aborts outside the grid); the strategy then writes
\* the bit into channel idx of that pixel.
EncodeBit ==
    /\ pc = "encoding"
    /\ nbits < Len(binary_msg)
    /\ LET ctr == nbits \div 3
           idx == nbits % 3
           pixel_num == IF steg.bit_dist.kind = "Sequential" THEN ctr
                        ELSE linear_pixel_dist[ctr + 1]
           x == pixel_num % image.width
           y == pixel_num \div image.width
           chan == 3 * (y * image.width + x) + idx + 1
       IN  /\ visited' = IF idx = 0 THEN Append(visited, <<x, y>>) ELSE visited
           /\ IF ~(x < image.width /\ y < image.height)
                  THEN /\ pc' = "panic"
                       /\ panic' = "Image index out of bounds"
                       /\ UNCHANGED <<steg, out, nbits, encLog>>
              ELSE LET e == BitEncode_encode(steg.encoder, binary_msg[nbits + 1], out[chan])
                   IN  /\ steg' = [steg EXCEPT !.encoder = e.encoder]
                       /\ IF e.panic
                              THEN /\ pc' = "panic"
                                   /\ panic' = "cannot create bitmask from val"
                                   /\ UNCHANGED <<out, nbits, encLog>>
                          ELSE /\ out' = [out EXCEPT ![chan] = e.color]
                               /\ nbits' = nbits + 1
                               /\ encLog' = Append(encLog, [chan |-> chan, mask |-> e.mask])
                               /\ UNCHANGED <<pc, panic>>
    /\ UNCHANGED <<image, opt, end_flag, msg, max_msg_len, binary_msg,
                   linear_pixel_dist, bitstream, result, saved, phase, carrier,
                   decLog>>

\* steg.rs:101-107: every chunk written; Ok(img).
EncodeReturn ==
    /\ pc = "encoding"
    /\ nbits = Len(binary_msg)
    /\ pc' = "encoded"
    /\ result' = [kind |-> "Grid", bytes |-> <<>>]
    /\ UNCHANGED <<image, opt, end_flag, msg, steg, max_msg_len, panic, out,
                   binary_msg, linear_pixel_dist, nbits, bitstream, saved, phase,
                   carrier, visited, encLog, decLog>>

\* exec.rs:128-142: the grid is saved (or written to stdout) and run returns Ok.
RunSave ==
    /\ pc = "encoded"
    /\ saved' = TRUE
    /\ pc' = "done"
    /\ UNCHANGED <<image, opt, end_flag, msg, steg, max_msg_len, panic, out,
                   binary_msg, linear_pixel_dist, nbits, bitstream, result, phase,
                   carrier, visited, encLog, decLog>>

\* A second invocation: --decode on the saved grid with the same method, seed
\* and max-bit, the distribution being `linear-N` with the N encode printed.
NextRun ==
    /\ pc = "done"
    /\ phase = 1
    /\ saved
    /\ phase' = 2
    /\ image' = [image EXCEPT !.raw = out]
    /\ opt' = [opt EXCEPT !.decode = TRUE,
                          !.distribution =
                              IF opt.distribution.kind = "Linear"
                                  THEN Linear(Len(linear_pixel_dist))
                              ELSE Sequential]
    /\ end_flag' = TRUE
    /\ pc' = "start"
    /\ linear_pixel_dist' = <<>>
    /\ result' = [kind |-> "None", bytes |-> <<>>]
    /\ UNCHANGED <<msg, steg, max_msg_len, panic, out, binary_msg, nbits, bitstream,
                   saved, carrier, visited, encLog, decLog>>

(***************************************************************************)
(* BitEncoder::decode (steg.rs:110-173).                                   *)
(***************************************************************************)
\* The number of pixel visits of decode's loop.
DecodeVisits ==
    IF steg.bit_dist.kind = "Sequential" THEN Pixels(image)
    ELSE Len(linear_pixel_dist)

\* steg.rs:111-121, 134-136: the empty bitstream and, for Linear, the linspace.
DecodeBegin ==
    /\ pc = "ready"
    /\ ~opt.check_max_length /\ opt.decode
    /\ bitstream' = <<>>
    /\ linear_pixel_dist' =
           IF steg.bit_dist.kind = "Linear"
               THEN get_linspace(Pixels(image) - 1, steg.bit_dist.length)
           ELSE <<>>
    /\ pc' = "decoding"
    /\ UNCHANGED <<image, opt, end_flag, msg, steg, max_msg_len, panic, out,
                   binary_msg, nbits, result, saved, phase, carrier, visited,
                   encLog, decLog>>

\* steg.rs:125-132, 137-147: one channel of one visited pixel: leave the loops
\* when the bitstream ends with END, else push the bit the strategy extracts.
DecodeBit ==
    /\ pc = "decoding"
    /\ Len(bitstream) \div 3 < DecodeVisits
    /\ IF has_end(bitstream, EndBits)
           THEN /\ pc' = "scanned"
                /\ UNCHANGED <<steg, panic, bitstream, decLog>>
       ELSE LET v == Len(bitstream) \div 3
                idx == Len(bitstream) % 3
                pixel_num == IF steg.bit_dist.kind = "Sequential" THEN v
                             ELSE linear_pixel_dist[v + 1]
                x == pixel_num % image.width
                y == pixel_num \div image.width
                chan == 3 * (y * image.width + x) + idx + 1
                d == BitEncode_decode(steg.encoder, image.raw[chan])
            IN  /\ steg' = [steg EXCEPT !.encoder = d.encoder]
                /\ IF d.panic
                       THEN /\ pc' = "panic"
                            /\ panic' = "cannot create bitmask from val"
                            /\ UNCHANGED <<bitstream, decLog>>
                   ELSE /\ bitstream' = Append(bitstream, d.bit)
                        /\ decLog' = Append(decLog, [chan |-> chan, mask |-> d.mask])
                        /\ UNCHANGED <<pc, panic>>
    /\ UNCHANGED <<image, opt, end_flag, msg, max_msg_len, out, binary_msg,
                   linear_pixel_dist, nbits, result, saved, phase, carrier,
                   visited, encLog>>

\* The pixel iterator of decode is exhausted.
DecodeLoopEnd ==
    /\ pc = "decoding"
    /\ ~(Len(bitstream) \div 3 < DecodeVisits)
    /\ pc' = "scanned"
    /\ UNCHANGED <<image, opt, end_flag, msg, steg, max_msg_len, panic, out,
                   binary_msg, linear_pixel_dist, nbits, bitstream, result, saved,
                   phase, carrier, visited, encLog, decLog>>

\* A decode that truncates and reconstructs without the END check.
decode_result_unchecked(bits, es) ==
    IF es /\ Len(bits) >= Len(EndBits)
        THEN Reconstruct(SubSeq(bits, 1, Len(bits) - Len(EndBits)))
    ELSE Reconstruct(bits)

\* steg.rs:151-172: the END check, the truncation, the bytes.
decode_result(bits, es) ==
    IF es /\ ~has_end(bits, EndBits) THEN [kind |-> "EncodingNotFound", bytes |-> <<>>]
    ELSE IF es THEN Reconstruct(SubSeq(bits, 1, Len(bits) - Len(EndBits)))
    ELSE Reconstruct(bits)

\* decode returns, and run with it (exec.rs:56-76).
DecodeReturn ==
    /\ pc = "scanned"
    /\ result' = decode_result(bitstream, steg.end_seq)
    /\ pc' = IF result'.kind = "Ok" THEN "done" ELSE "failed"
    /\ UNCHANGED <<image, opt, end_flag, msg, steg, max_msg_len, panic, out,
                   binary_msg, linear_pixel_dist, nbits, bitstream, saved, phase,
                   carrier, visited, encLog, decLog>>

Next ==
    \/ RunBegin
    \/ RunCheckMaxLength
    \/ RunReject
    \/ EncodeBegin
    \/ EncodeBit
    \/ EncodeReturn
    \/ RunSave
    \/ NextRun
    \/ DecodeBegin
    \/ DecodeBit
    \/ DecodeLoopEnd
    \/ DecodeReturn

Spec == Init /\ [][Next]_vars

(***************************************************************************)
(* Vocabulary of the claims.                                               *)
(***************************************************************************)
\* The digits of END end at position j of bits.
EndsAt(bits, j) ==
    /\ j >= Len(EndBits)
    /\ j <= Len(bits)
    /\ \A i \in 1..Len(EndBits) : bits[j - Len(EndBits) + i] = EndBits[i]

\* The digits of END occur nowhere in bits.
NoEndIn(bits) == \A j \in 1..Len(bits) : ~EndsAt(bits, j)

\* The first invocation was an encode that passed the length check and
\* appended END to the message.
EncodedWithEnd ==
    /\ out # <<>>
    /\ Len(binary_msg) = 8 * (Len(msg) + Len(END))

\* An invocation of decode has returned.
DecodeReturned == opt.decode /\ ~opt.check_max_length /\ pc \in {"done", "failed"}

InGrid(xy) == xy[1] < image.width /\ xy[2] < image.height

\* The one-bit masks in which two bytes differ.
DiffBits(a, b) == {m \in {1, 2, 4, 8, 16, 32, 64, 128} : AndMask(a, m) # AndMask(b, m)}

\* The channel byte (1-based index into raw) of the k-th bit in visiting
\* order R, G, B of the pixels `pixels` (0-based pixel numbers, 1-based seq).
ChanOf(pixels, k) == 3 * pixels[((k - 1) \div 3) + 1] + ((k - 1) % 3) + 1

\* Raster order over the whole grid.
Raster == [i \in 1..Pixels(image) |-> i - 1]

\* The pixels decode visits, in order.
DecodePixels ==
    IF steg.bit_dist.kind = "Sequential" THEN Raster ELSE linear_pixel_dist

\* bitstream is, bit for bit, what the masks of decLog select from the grid
\* along the distribution.
ScanFaithful ==
    /\ Len(decLog) = Len(bitstream)
    /\ \A k \in 1..Len(bitstream) :
         /\ decLog[k].chan = ChanOf(DecodePixels, k)
         /\ bitstream[k] =
                (IF AndMask(image.raw[decLog[k].chan], decLog[k].mask) > 0 THEN 1 ELSE 0)

\* Bytes formed from bits, eight at a time, most significant first; a last
\* group of fewer than eight bits counts as the number its bits spell.
PackBits(bits) ==
    [i \in 1..((Len(bits) + 7) \div 8) |->
        BitsNat(SubSeq(bits, 8 * i - 7, IF 8 * i < Len(bits) THEN 8 * i ELSE Len(bits)))]

(***************************************************************************)
(* C1  Round-trip: for every image and every payload p of at most          *)
(* max_bytes(image) bytes, decoding the grid returned by encode(image, p)  *)
(* with the terminator enabled returns exactly p, for Lsb and Rsb (same    *)
(* seed and max, fresh generator) and for Sequential and Linear (decode    *)
(* given the visit count encode used).  As an invariant: once such a       *)
(* payload is accepted, neither invocation aborts, and the decode of the   *)
(* saved grid returns Ok(p).                                               *)
(***************************************************************************)
C1_RoundTrip ==
    EncodedWithEnd =>
        /\ pc # "panic"
        /\ (phase = 2 /\ DecodeReturned) => result = [kind |-> "Ok", bytes |-> msg]

(***************************************************************************)
(* C2  Capacity boundary: a payload of exactly max_bytes(image) bytes is   *)
(* accepted by run and every pixel coordinate encode visits lies inside    *)
(* the grid, under both distributions; a payload of max_bytes(image) + 1   *)
(* bytes is rejected with the capacity-exceeded error before encode is     *)
(* invoked, so no grid is cloned, mutated or written.                      *)
(***************************************************************************)
C2_CapacityBoundary ==
    (phase = 1 /\ ~opt.decode /\ ~opt.check_max_length
        /\ pc # "start" /\ panic # "attempt to subtract with overflow") =>
        /\ USize(Len(msg)) = max_msg_len =>
             /\ pc # "failed"
             /\ result.kind # "CapacityExceeded"
             /\ panic # "Image index out of bounds"
             /\ \A i \in 1..Len(visited) : InGrid(visited[i])
        /\ (Len(msg) >= 1 /\ USize(Len(msg) - 1) = max_msg_len) =>
             /\ pc \in {"ready", "failed"}
             /\ pc = "failed" => result.kind = "CapacityExceeded"
             /\ out = <<>> /\ visited = <<>> /\ encLog = <<>> /\ ~saved

\* A payload of exactly max_bytes bytes was encoded under Linear and saved.
C2_Witness ==
    /\ phase = 1 /\ pc = "done" /\ saved
    /\ USize(Len(msg)) = max_msg_len /\ Len(msg) > 0
    /\ steg.bit_dist.kind = "Linear"
    /\ Len(visited) = Pixels(image)

(***************************************************************************)
(* C3  Capacity formula: for every image, max_bytes returns                *)
(* floor((3*W*H - 32) / 8) as a well-defined number of bytes, with no      *)
(* wrap and no abort, also when 3*W*H < 32.                                *)
(***************************************************************************)
C3_CapacityFormula ==
    pc # "start" =>
        /\ panic # "attempt to subtract with overflow"
        /\ FitsNat(max_msg_len)
        /\ NatOf(max_msg_len) = (3 * image.width * image.height - 32) \div 8

(***************************************************************************)
(* C4  Marker absence: decoding, with the terminator expected, an image    *)
(* that never had a message encoded into it, or that was encoded with the  *)
(* terminator disabled, returns EncodingNotFound and never Ok.             *)
(***************************************************************************)
\* decode (terminator expected) returned on a grid without an encoded END.
C4_Case ==
    /\ DecodeReturned
    /\ steg.end_seq
    /\ phase = 1 \/ ~EncodedWithEnd

C5_RsbMaskSelection ==
    /\ panic # "cannot create bitmask from val"
    /\ \A k \in 1..Len(encLog) : encLog[k].mask \in {1, 2, 4, 8}
    /\ \A k \in 1..Len(decLog) : decLog[k].mask \in {1, 2, 4, 8}

(***************************************************************************)
(* C6  Reconstruction error: whenever the number of bits left in the       *)
(* decoded bitstream after removing the terminator is not a multiple of    *)
(* 8, decode returns the Decoding error instead of Ok bytes.               *)
(***************************************************************************)
C6_ReconstructionError ==
    (DecodeReturned /\ steg.end_seq /\ EndsAt(bitstream, Len(bitstream))
        /\ (Len(bitstream) - Len(EndBits)) % 8 # 0) =>
        result.kind = "Decoding"

(***************************************************************************)
(* C7  Frame of encode: in the grid encode returns, each channel byte      *)
(* that carries a bit differs from the input byte in at most the one bit   *)
(* position the strategy chose (bit 0 for Lsb), every other channel byte   *)
(* equals the input byte, and the input image is not modified.             *)
(***************************************************************************)
C7_EncodeFrame ==
    (phase = 1 /\ pc \in {"encoded", "done"} /\ out # <<>>) =>
        /\ image.raw = carrier
        /\ Len(out) = Len(carrier)
        /\ \A c \in 1..Len(out) :
             LET masks == {encLog[k].mask : k \in {j \in 1..Len(encLog) : encLog[j].chan = c}}
             IN  IF masks = {} THEN out[c] = carrier[c]
                 ELSE /\ \E m \in masks : DiffBits(out[c], carrier[c]) \subseteq {m}
                      /\ steg.encoder.kind = "Lsb" => masks = {1}

(***************************************************************************)
(* C8  Linear spacing: get_linspace(0, P-1, n) for n >= 2 returns n        *)
(* non-decreasing indices, the i-th (0-based) being floor(i*(P-1)/(n-1)),  *)
(* so the first is 0 and the last is P-1; encode uses                      *)
(* n = ceil(total_bits / 3) and maps each index to (index mod width,       *)
(* index div width).                                                       *)
(***************************************************************************)
C8_LinearSpacing ==
    LET n == Len(linear_pixel_dist)
        P == Pixels(image)
    IN  n >= 2 =>
          /\ \A i \in 0..(n - 1) : linear_pixel_dist[i + 1] = (i * (P - 1)) \div (n - 1)
          /\ linear_pixel_dist[1] = 0 /\ linear_pixel_dist[n] = P - 1
          /\ pc \in {"encoding", "encoded"} =>
               /\ n = (Len(binary_msg) + 2) \div 3
               /\ steg.bit_dist.kind = "Linear" =>
                    \A v \in 1..Len(visited) :
                        visited[v] = <<linear_pixel_dist[v] % image.width,
                                       linear_pixel_dist[v] \div image.width>>

(***************************************************************************)
(* C9  Generator synchronisation: with Rsb the generator is advanced       *)
(* exactly once per bit written by encode and once per bit read by         *)
(* decode, in channel order R, G, B within each visited pixel; so the      *)
(* decode of the saved grid (fresh generator, same seed and max, same      *)
(* pixels) reads its k-th bit with the mask encode wrote its k-th bit      *)
(* with, for every k up to where decode stops.  A draw that From<u8>       *)
(* rejects has advanced the generator and processed no bit.                *)
(***************************************************************************)
\* The pixels encode visits, in order.
EncodePixels ==
    IF steg.bit_dist.kind = "Sequential"
        THEN [i \in 1..((Len(binary_msg) + 2) \div 3) |-> i - 1]
    ELSE linear_pixel_dist

C9_GeneratorSync ==
    (pc # "start" /\ steg.encoder.kind = "Rsb") =>
        LET rejected == IF panic = "cannot create bitmask from val" THEN 1 ELSE 0
        IN  /\ (phase = 1 /\ ~opt.decode /\ out # <<>>) =>
                 /\ steg.encoder.draws = Len(encLog) + rejected
                 /\ Len(encLog) = nbits
                 /\ \A k \in 1..Len(encLog) : encLog[k].chan = ChanOf(EncodePixels, k)
            /\ (opt.decode /\ pc # "ready") =>
                 /\ steg.encoder.draws = Len(decLog) + rejected
                 /\ Len(decLog) = Len(bitstream)
                 /\ \A k \in 1..Len(decLog) : decLog[k].chan = ChanOf(DecodePixels, k)
            /\ (phase = 2 /\ opt.decode /\ pc # "ready") =>
                 \A k \in 1..Len(decLog) :
                     k <= Len(encLog) => decLog[k] = encLog[k]

\* The decode of a grid written with both masks of max = 2 found END.
C9_Witness ==
    /\ phase = 2 /\ pc = "done"
    /\ steg.encoder.kind = "Rsb"
    /\ Len(decLog) = Len(encLog) /\ Len(decLog) >= 40
    /\ \E j, k \in 1..Len(decLog) : decLog[j].mask = 1 /\ decLog[k].mask = 2
    /\ steg.bit_dist.kind = "Linear"

(***************************************************************************)
(* C10  First-match stop: decode stops reading at the earliest position    *)
(* of the extracted bits where the trailing 32 bits are the digits of      *)
(* "$TGV", at any bit offset, reads no channel after it, and returns the   *)
(* bytes formed from exactly the bits before that match; consequently      *)
(* decode(encode(image, p)) = p holds exactly for the accepted payloads p  *)
(* for which the first occurrence of the pattern in bits(p) followed by    *)
(* the terminator is the one at the very end.                              *)
(***************************************************************************)
\* The first occurrence of the digits of END in bits(msg) \o END is at the end.
FirstEndIsLast ==
    LET full == BinaryOf(msg) \o EndBits
    IN  \A j \in 1..(Len(full) - 1) : ~EndsAt(full, j)

\* The part about decode alone: where it stops and what it returns.
C10_StopAndReturn ==
    (opt.decode /\ pc \in {"decoding", "scanned", "done", "failed"}) =>
        /\ ScanFaithful
        /\ \A j \in 1..(Len(bitstream) - 1) : ~EndsAt(bitstream, j)
        /\ pc # "decoding" =>
             \/ EndsAt(bitstream, Len(bitstream))
             \/ Len(bitstream) = 3 * DecodeVisits
        /\ (DecodeReturned /\ steg.end_seq /\ EndsAt(bitstream, Len(bitstream))) =>
             result = [kind |-> "Ok",
                       bytes |-> PackBits(SubSeq(bitstream, 1, Len(bitstream) - 32))]

\* The consequence, for every accepted payload whose encode and decode return.
C10_RoundTripExactly ==
    (EncodedWithEnd /\ phase = 2 /\ DecodeReturned) =>
        (result = [kind |-> "Ok", bytes |-> msg] <=> FirstEndIsLast)

C10_FirstMatchStop == C10_StopAndReturn /\ C10_RoundTripExactly

\* The consequence where the bits of the payload and of END fit the grid.
C10_RoundTripWhereDefined ==
    (EncodedWithEnd /\ phase = 2 /\ DecodeReturned
        /\ Len(binary_msg) <= 3 * Pixels(image)) =>
        (result = [kind |-> "Ok", bytes |-> msg] <=> FirstEndIsLast)

(***************************************************************************)
(* C11  Distinct visits: during one encode no pixel is visited twice, so   *)
(* no channel byte written for an earlier bit is overwritten by a later    *)
(* bit.  For Sequential this holds for every bitstream; for Linear it      *)
(* holds whenever the visit count n = ceil(total_bits / 3) is at most      *)
(* width * height, the floored sample indices then being strictly          *)
(* increasing.                                                             *)
(***************************************************************************)
\* encode has begun in the first invocation.
C11_Case ==
    /\ phase = 1 /\ ~opt.decode /\ out # <<>>
    /\ \/ steg.bit_dist.kind = "Sequential"
       \/ (Len(binary_msg) + 2) \div 3 <= Pixels(image)

C11_DistinctVisits ==
    C11_Case =>
        /\ \A i, j \in 1..Len(visited) : i < j => visited[i] # visited[j]
        /\ \A j, k \in 1..Len(encLog) : j < k => encLog[j].chan # encLog[k].chan
        /\ steg.bit_dist.kind = "Linear" =>
             /\ Len(linear_pixel_dist) = (Len(binary_msg) + 2) \div 3
             /\ \A i \in 1..(Len(linear_pixel_dist) - 1) :
                    linear_pixel_dist[i] < linear_pixel_dist[i + 1]
             /\ \A v \in 1..Len(visited) :
                    visited[v] = <<linear_pixel_dist[v] % image.width,
                                   linear_pixel_dist[v] \div image.width>>

\* A Linear encode that visited every pixel of the grid once and returned.
C11_Witness ==
    /\ C11_Case
    /\ steg.bit_dist.kind = "Linear"
    /\ pc = "encoded"
    /\ Len(visited) = Pixels(image)
    /\ Len(encLog) = Len(binary_msg) /\ Len(encLog) >= 48

=============================================================================
